---- MODULE Spec2Model ----
(***************************************************************************)
(* A model of the dungeon-desktop model layer: MapData, MapLayer           *)
(* (src/model/map_data.py) and Tile (src/model/tile.py).                   *)
(*                                                                         *)
(* Python objects are modelled by value, except Tile objects stored in a   *)
(* grid: a grid cell holds a reference, so the tiles live in a heap        *)
(* (tile id -> stored coordinates) and the cells hold tile ids.            *)
(* Optional[int] / Optional[float] values are sequences of length 0 or 1:  *)
(* <<>> is None and <<v>> is the value v.                                  *)
(***************************************************************************)
EXTENDS Integers, Sequences, FiniteSets, TLC

\* ------------------------------------------------------------------ bounds
\* Largest map width / height the callers ask for.
MaxDim == 2
\* Number of calls made on a MapData after its construction.
MaxOps == 2
\* Largest explicit z_index passed to add_layer.
MaxZ == 5
\* Largest max_health / current_health a Tile is constructed with.
MaxHealth == 2
\* Largest magnitude of an amount passed to damage / heal.
MaxAmount == 3

\* ----------------------------------------------------------- input domains
None == "None"
\* Tile objects that callers hold and pass to set_tile.
TileIds == {"tA", "tB"}
TileArg == TileIds \cup {None}
\* Coordinates passed by callers: one step outside the largest map each side.
Coords == -1 .. MaxDim
Dims == 0 .. MaxDim
LayerNames == {"Background", "Terrain", "Objects", "Extra"}
\* Layer names passed to MapData.set_tile: one that exists, one that does not.
TileLayerNames == {"Terrain", "Extra"}
\* The tile written where only the shape of the grids is observed.
ShapeTiles == {"tA"}
NewLayerNames == {"Terrain", "Extra"}
NewLayerTypes == {"ENTITIES"}
ZArg == {<< >>} \cup {<<z>> : z \in 0 .. MaxZ}
\* enums.TileType
TileType == {"FLOOR", "WALL", "DOOR", "WATER", "LAVA", "PIT", "STAIRS_UP",
             "STAIRS_DOWN", "CHEST", "SWITCH", "PRESSURE_PLATE", "TRAP",
             "SPAWN_POINT", "EXIT", "TELEPORTER"}
HealthArg == {<< >>} \cup {<<v>> : v \in 0 .. MaxHealth}
Amounts == (0 - MaxAmount) .. MaxAmount
\* (properties, asset_instances) a Tile is constructed with: both omitted, or
\* a one-entry property map and one attached AssetInstance.
BagArg == {[properties |-> << >>, asset_instances |-> << >>],
           [properties |-> << {<<"locked", "yes">>} >>,
            asset_instances |-> << <<"inst1">> >>]}

VARIABLES
    width,          \* MapData.width
    height,         \* MapData.height
    layers,         \* MapData.layers: sequence of MapLayer records
    spawn_points,   \* MapData.spawn_points: sequence of <<x, y>>
    exit_points,    \* MapData.exit_points: sequence of <<x, y>>
    heap,           \* Tile objects: tile id -> [x, y] (Tile.x, Tile.y)
    created,        \* number of MapLayer objects constructed so far
    nops,           \* number of calls made so far
    last,           \* the last call: its name, arguments and return value
    tile,           \* a Tile object on its own (all of its fields)
    ctor,           \* the arguments that Tile was constructed with
    copied          \* the result of the last tile.copy(), <<>> before it

mapvars == <<width, height, layers, spawn_points, exit_points, heap, created>>
tilevars == <<tile, ctor, copied>>
vars == <<width, height, layers, spawn_points, exit_points, heap, created,
          nops, last, tile, ctor, copied>>

\* -------------------------------------------------------------------- Tile
\* Tile.__post_init__ applied to the constructor's arguments.
Tile_post_init(a) ==
    [x |-> a.x, y |-> a.y,
     tile_type |-> a.tile_type,
     biome_type |-> a.biome_type,
     asset_instances |->
        IF a.asset_instances = << >> THEN << >> ELSE a.asset_instances[1],
     is_passable |->
        IF a.tile_type \in {"WALL", "PIT", "LAVA"} THEN FALSE
        ELSE a.is_passable,
     is_transparent |->
        IF a.tile_type = "WALL" THEN FALSE ELSE a.is_transparent,
     movement_cost |-> a.movement_cost,
     is_interactive |-> a.is_interactive,
     interaction_range |-> a.interaction_range,
     is_discovered |-> a.is_discovered,
     is_visible |-> a.is_visible,
     properties |-> IF a.properties = << >> THEN {} ELSE a.properties[1],
     max_health |-> a.max_health,
     current_health |->
        IF a.current_health = << >> /\ a.max_health # << >>
        THEN a.max_health
        ELSE a.current_health]

\* Constructor arguments, the fields no operation reads at their defaults.
TileArgs(tile_type, passable, transparent, max_health, health, bag) ==
    [x |-> 0, y |-> 0, tile_type |-> tile_type, biome_type |-> "DUNGEON",
     asset_instances |-> bag.asset_instances,
     is_passable |-> passable, is_transparent |-> transparent,
     movement_cost |-> 1, is_interactive |-> FALSE, interaction_range |-> 1,
     is_discovered |-> FALSE, is_visible |-> FALSE,
     properties |-> bag.properties,
     max_health |-> max_health, current_health |-> health]

Tile_is_destroyed(t) ==
    t.current_health # << >> /\ t.current_health[1] <= 0

\* Mutation of the destruction effect: every tile kind becomes passable.
Tile_on_destroyed_AnyKind(t) ==
    [t EXCEPT !.is_passable = TRUE, !.is_transparent = TRUE]

Tile_on_destroyed(t) ==
    IF t.tile_type = "WALL"
    THEN [t EXCEPT !.is_passable = TRUE, !.is_transparent = TRUE]
    ELSE t

Max(a, b) == IF a >= b THEN a ELSE b
Min(a, b) == IF a <= b THEN a ELSE b

\* Tile.damage: the tile afterwards and the return value.
Tile_damage(t, amount) ==
    IF t.current_health = << >>
    THEN [tile |-> t, ret |-> FALSE]
    ELSE LET t1 == [t EXCEPT
                       !.current_health = <<Max(0, t.current_health[1] - amount)>>]
         IN  IF Tile_is_destroyed(t1)
             THEN [tile |-> Tile_on_destroyed(t1), ret |-> TRUE]
             ELSE [tile |-> t1, ret |-> FALSE]

\* Tile.heal: the tile afterwards.
Tile_heal(t, amount) ==
    IF t.current_health # << >> /\ t.max_health # << >>
    THEN [t EXCEPT
             !.current_health = <<Min(t.max_health[1], t.current_health[1] + amount)>>]
    ELSE t

\* Tile.copy: a new Tile constructed from this one's fields, so that
\* __post_init__ runs on the copy.
Tile_copy(t) ==
    Tile_post_init(
        [x |-> t.x, y |-> t.y, tile_type |-> t.tile_type,
         biome_type |-> t.biome_type,
         is_passable |-> t.is_passable, is_transparent |-> t.is_transparent,
         movement_cost |-> t.movement_cost,
         is_interactive |-> t.is_interactive,
         interaction_range |-> t.interaction_range,
         is_discovered |-> t.is_discovered, is_visible |-> t.is_visible,
         max_health |-> t.max_health, current_health |-> t.current_health,
         properties |-> << IF t.properties # {} THEN t.properties ELSE {} >>,
         asset_instances |->
            << [i \in 1 .. Len(t.asset_instances) |-> t.asset_instances[i]] >>])

\* ---------------------------------------------------------------- MapLayer
\* MapLayer.__post_init__: an absent grid becomes height rows of width Nones.
MapLayer_post_init(w, h) ==
    [r \in 1 .. h |-> [c \in 1 .. w |-> None]]

\* The MapLayer constructor as add_layer calls it; id is the object identity.
MapLayer(layer_type, name, w, h, z_index, id) ==
    [layer_type |-> layer_type, name |-> name, width |-> w, height |-> h,
     tiles |-> MapLayer_post_init(w, h), z_index |-> z_index, id |-> id]

MapLayer_is_valid_position(layer, x, y) ==
    0 <= x /\ x < layer.width /\ 0 <= y /\ y < layer.height

MapLayer_get_tile(layer, x, y) ==
    IF ~MapLayer_is_valid_position(layer, x, y)
    THEN None
    ELSE layer.tiles[y + 1][x + 1]

\* Mutation of set_tile: the tile's coordinates are not rewritten.
MapLayer_set_tile_KeepsCoordinates(layer, hp, x, y, t) ==
    IF ~MapLayer_is_valid_position(layer, x, y)
    THEN [layer |-> layer, heap |-> hp, ret |-> FALSE]
    ELSE [layer |-> [layer EXCEPT !.tiles[y + 1][x + 1] = t],
          heap  |-> hp,
          ret   |-> TRUE]

\* MapLayer.set_tile: the new layer, the new tile heap and the return value.
MapLayer_set_tile(layer, hp, x, y, t) ==
    IF ~MapLayer_is_valid_position(layer, x, y)
    THEN [layer |-> layer, heap |-> hp, ret |-> FALSE]
    ELSE [layer |-> [layer EXCEPT !.tiles[y + 1][x + 1] = t],
          heap  |-> IF t # None
                    THEN [hp EXCEPT ![t] = [x |-> x, y |-> y]]
                    ELSE hp,
          ret   |-> TRUE]

MapLayer_clear_tile(layer, hp, x, y) ==
    MapLayer_set_tile(layer, hp, x, y, None)

\* ----------------------------------------------------------------- MapData
\* Mutation of get_tiles_in_area: the corners are taken as given, without
\* the min / max normalisation.
MapLayer_get_tiles_in_area_AsGiven(layer, x1, y1, x2, y2) ==
    LET x_from == Max(0, x1)
        x_to   == Min(layer.width, x2 + 1)
        y_from == Max(0, y1)
        y_to   == Min(layer.height, y2 + 1)
        Row(y) == [i \in 1 .. (x_to - x_from) |->
                      <<x_from + i - 1, y, layer.tiles[y + 1][x_from + i]>>]
        Rows[n \in 0 .. Max(0, y_to - y_from)] ==
            IF n = 0 THEN << >> ELSE Rows[n - 1] \o Row(y_from + n - 1)
    IN  Rows[Max(0, y_to - y_from)]

\* MapLayer.get_tiles_in_area: the list of (x, y, tile) triples, rows outer
\* and columns inner, as the two nested range loops append them.
MapLayer_get_tiles_in_area(layer, x1, y1, x2, y2) ==
    LET min_x  == Min(x1, x2)
        max_x  == Max(x1, x2)
        min_y  == Min(y1, y2)
        max_y  == Max(y1, y2)
        x_from == Max(0, min_x)
        x_to   == Min(layer.width, max_x + 1)
        y_from == Max(0, min_y)
        y_to   == Min(layer.height, max_y + 1)
        Row(y) == [i \in 1 .. (x_to - x_from) |->
                      <<x_from + i - 1, y, layer.tiles[y + 1][x_from + i]>>]
        Rows[n \in 0 .. Max(0, y_to - y_from)] ==
            IF n = 0 THEN << >> ELSE Rows[n - 1] \o Row(y_from + n - 1)
    IN  Rows[Max(0, y_to - y_from)]

\* Mutation of the sort: not stable, a layer goes before its equals.
RECURSIVE InsertByZ_Unstable(_, _)
InsertByZ_Unstable(sorted, layer) ==
    IF sorted = << >> THEN <<layer>>
    ELSE IF sorted[Len(sorted)].z_index < layer.z_index
         THEN Append(sorted, layer)
         ELSE Append(InsertByZ_Unstable(SubSeq(sorted, 1, Len(sorted) - 1),
                                        layer),
                     sorted[Len(sorted)])

\* list.sort(key=z_index): a stable sort, here by insertion from the left.
RECURSIVE InsertByZ(_, _)
InsertByZ(sorted, layer) ==
    IF sorted = << >> THEN <<layer>>
    ELSE IF sorted[Len(sorted)].z_index <= layer.z_index
         THEN Append(sorted, layer)
         ELSE Append(InsertByZ(SubSeq(sorted, 1, Len(sorted) - 1), layer),
                     sorted[Len(sorted)])

RECURSIVE MapData_sort_layers(_)
MapData_sort_layers(ls) ==
    IF ls = << >> THEN << >>
    ELSE InsertByZ(MapData_sort_layers(SubSeq(ls, 1, Len(ls) - 1)),
                   ls[Len(ls)])

\* Mutation of add_layer: the default z_index is one above the layer count.
MapData_add_layer_CountPlusOne(ls, w, h, layer_type, name, z, id) ==
    LET z_index == IF z = << >> THEN Len(ls) + 1 ELSE z[1]
        layer   == MapLayer(layer_type, name, w, h, z_index, id)
    IN  MapData_sort_layers(Append(ls, layer))

\* MapData.add_layer: the new layer list (the new layer has identity id).
MapData_add_layer(ls, w, h, layer_type, name, z, id) ==
    LET z_index == IF z = << >> THEN Len(ls) ELSE z[1]
        layer   == MapLayer(layer_type, name, w, h, z_index, id)
    IN  MapData_sort_layers(Append(ls, layer))

\* MapData.get_layer: the index of the first layer with that name, 0 if none.
MapData_get_layer(ls, name) ==
    IF \E i \in 1 .. Len(ls) : ls[i].name = name
    THEN CHOOSE i \in 1 .. Len(ls) :
            /\ ls[i].name = name
            /\ \A j \in 1 .. (i - 1) : ls[j].name # name
    ELSE 0

\* MapData.remove_layer: the new layer list and the return value.
MapData_remove_layer(ls, name) ==
    LET i == MapData_get_layer(ls, name)
    IN  IF i = 0
        THEN [layers |-> ls, ret |-> FALSE]
        ELSE [layers |-> SubSeq(ls, 1, i - 1) \o SubSeq(ls, i + 1, Len(ls)),
              ret |-> TRUE]

MapData_get_tile(ls, x, y, layer_name) ==
    LET i == MapData_get_layer(ls, layer_name)
    IN  IF i # 0 THEN MapLayer_get_tile(ls[i], x, y) ELSE None

\* Mutation of MapData.set_tile: the tile's coordinates are assigned before
\* the layer lookup and the bounds check.
MapData_set_tile_WritesFirst(ls, hp, x, y, layer_name, t) ==
    LET i   == MapData_get_layer(ls, layer_name)
        hp1 == IF t # None THEN [hp EXCEPT ![t] = [x |-> x, y |-> y]] ELSE hp
    IN  IF i # 0
        THEN LET r == MapLayer_set_tile(ls[i], hp1, x, y, t)
             IN  [layers |-> [ls EXCEPT ![i] = r.layer],
                  heap |-> r.heap, ret |-> r.ret]
        ELSE [layers |-> ls, heap |-> hp1, ret |-> FALSE]

\* MapData.set_tile: the new layer list, the new tile heap, the return value.
MapData_set_tile(ls, hp, x, y, layer_name, t) ==
    LET i == MapData_get_layer(ls, layer_name)
    IN  IF i # 0
        THEN LET r == MapLayer_set_tile(ls[i], hp, x, y, t)
             IN  [layers |-> [ls EXCEPT ![i] = r.layer],
                  heap |-> r.heap, ret |-> r.ret]
        ELSE [layers |-> ls, heap |-> hp, ret |-> FALSE]

\* Mutation of the map's bounds check: the upper bounds are inclusive.
MapData_is_valid_position_Inclusive(w, h, x, y) ==
    0 <= x /\ x <= w /\ 0 <= y /\ y <= h

MapData_is_valid_position(w, h, x, y) ==
    0 <= x /\ x < w /\ 0 <= y /\ y < h

\* add_spawn_point / add_exit_point: the new list and the return value.
MapData_add_spawn_point(w, h, points, x, y) ==
    IF MapData_is_valid_position(w, h, x, y)
    THEN [points |-> Append(points, <<x, y>>), ret |-> TRUE]
    ELSE [points |-> points, ret |-> FALSE]

MapData_add_exit_point(w, h, points, x, y) ==
    IF MapData_is_valid_position(w, h, x, y)
    THEN [points |-> Append(points, <<x, y>>), ret |-> TRUE]
    ELSE [points |-> points, ret |-> FALSE]

\* Mutation of resize: the copy loops stop one row and one column early.
ResizeLayer_OffByOne(layer, old_width, old_height, new_width, new_height) ==
    LET copy_width  == Min(old_width, new_width) - 1
        copy_height == Min(old_height, new_height) - 1
        new_tiles   ==
            [r \in 1 .. new_height |->
                [c \in 1 .. new_width |->
                    IF r <= copy_height /\ c <= copy_width
                    THEN layer.tiles[r][c]
                    ELSE None]]
    IN  [layer EXCEPT !.tiles = new_tiles,
                      !.width = new_width,
                      !.height = new_height]

\* The body of resize's loop: one layer's grid reallocated and refilled.
ResizeLayer(layer, old_width, old_height, new_width, new_height) ==
    LET copy_width  == Min(old_width, new_width)
        copy_height == Min(old_height, new_height)
        new_tiles   ==
            [r \in 1 .. new_height |->
                [c \in 1 .. new_width |->
                    IF r <= copy_height /\ c <= copy_width
                    THEN layer.tiles[r][c]
                    ELSE None]]
    IN  [layer EXCEPT !.tiles = new_tiles,
                      !.width = new_width,
                      !.height = new_height]

\* Mutation of resize: the loop stops before the last layer.
MapData_resize_SkipsLast(ls, old_width, old_height, new_width, new_height) ==
    [i \in 1 .. Len(ls) |->
        IF i < Len(ls)
        THEN ResizeLayer(ls[i], old_width, old_height, new_width, new_height)
        ELSE ls[i]]

\* MapData.resize: the new layer list.
MapData_resize(ls, old_width, old_height, new_width, new_height) ==
    [i \in 1 .. Len(ls) |->
        ResizeLayer(ls[i], old_width, old_height, new_width, new_height)]

\* Mutation of __post_init__: the OBJECTS layer is added before TERRAIN.
MapData_post_init_ObjectsFirst(w, h) ==
    LET l1 == MapData_add_layer(<< >>, w, h, "BACKGROUND", "Background", << >>, 1)
        l2 == MapData_add_layer(l1, w, h, "OBJECTS", "Objects", << >>, 3)
    IN  MapData_add_layer(l2, w, h, "TERRAIN", "Terrain", << >>, 2)

\* MapData.__post_init__ with no explicit layers: the three default layers.
MapData_post_init(w, h) ==
    LET l1 == MapData_add_layer(<< >>, w, h, "BACKGROUND", "Background", << >>, 1)
        l2 == MapData_add_layer(l1, w, h, "TERRAIN", "Terrain", << >>, 2)
    IN  MapData_add_layer(l2, w, h, "OBJECTS", "Objects", << >>, 3)

\* ------------------------------------------------------------ the last call
Call(op, name, idx, x, y, t, z, ret) ==
    [op |-> op, name |-> name, idx |-> idx, x |-> x, y |-> y, tile |-> t,
     z |-> z, ret |-> ret]

NoCall == Call("init", None, 0, 0, 0, None, << >>, TRUE)

\* ------------------------------------------------------------------- state
\* The Tile object of the map specifications: Tile(0, 0, FLOOR), never used.
IdleTile ==
    /\ ctor = TileArgs("FLOOR", TRUE, TRUE, << >>, << >>,
                       [properties |-> << >>, asset_instances |-> << >>])
    /\ tile = Tile_post_init(ctor)
    /\ copied = << >>

\* MapData(width, height, map_id) and two Tile(0, 0, ...) objects not yet in
\* any grid.
Init ==
    /\ width \in {1, MaxDim}
    /\ height \in {1, MaxDim}
    /\ layers = MapData_post_init(width, height)
    /\ spawn_points = << >>
    /\ exit_points = << >>
    /\ heap = [t \in TileIds |-> [x |-> 0, y |-> 0]]
    /\ created = 3
    /\ nops = 0
    /\ last = NoCall
    /\ IdleTile

\* map.set_tile(x, y, layer_name, tile)
SetTile(x, y, layer_name, t) ==
    LET r == MapData_set_tile(layers, heap, x, y, layer_name, t)
    IN  /\ nops < MaxOps
        /\ layers' = r.layers
        /\ heap' = r.heap
        /\ last' = Call("set_tile", layer_name, 0, x, y, t, << >>, r.ret)
        /\ nops' = nops + 1
        /\ UNCHANGED <<width, height, spawn_points, exit_points, created>>
        /\ UNCHANGED tilevars

\* map.layers[idx].clear_tile(x, y)
ClearTile(idx, x, y) ==
    LET r == MapLayer_clear_tile(layers[idx], heap, x, y)
    IN  /\ nops < MaxOps
        /\ layers' = [layers EXCEPT ![idx] = r.layer]
        /\ heap' = r.heap
        /\ last' = Call("clear_tile", None, idx, x, y, None, << >>, r.ret)
        /\ nops' = nops + 1
        /\ UNCHANGED <<width, height, spawn_points, exit_points, created>>
        /\ UNCHANGED tilevars

\* map.add_layer(layer_type, name, z_index); last.idx is the new layer's id.
AddLayer(layer_type, name, z) ==
    /\ nops < MaxOps
    /\ layers' = MapData_add_layer(layers, width, height, layer_type, name, z,
                                   created + 1)
    /\ created' = created + 1
    /\ last' = Call("add_layer", name, created + 1, 0, 0, None, z, TRUE)
    /\ nops' = nops + 1
    /\ UNCHANGED <<width, height, spawn_points, exit_points, heap>>
    /\ UNCHANGED tilevars

\* map.remove_layer(name)
RemoveLayer(name) ==
    LET r == MapData_remove_layer(layers, name)
    IN  /\ nops < MaxOps
        /\ layers' = r.layers
        /\ last' = Call("remove_layer", name, 0, 0, 0, None, << >>, r.ret)
        /\ nops' = nops + 1
        /\ UNCHANGED <<width, height, spawn_points, exit_points, heap, created>>
        /\ UNCHANGED tilevars

\* map.resize(new_width, new_height); last.x, last.y hold the new dimensions.
Resize(new_width, new_height) ==
    /\ nops < MaxOps
    /\ width' = new_width
    /\ height' = new_height
    /\ layers' = MapData_resize(layers, width, height, new_width, new_height)
    /\ last' = Call("resize", None, 0, new_width, new_height, None, << >>, TRUE)
    /\ nops' = nops + 1
    /\ UNCHANGED <<spawn_points, exit_points, heap, created>>
    /\ UNCHANGED tilevars

\* map.add_spawn_point(x, y)
AddSpawnPoint(x, y) ==
    LET r == MapData_add_spawn_point(width, height, spawn_points, x, y)
    IN  /\ nops < MaxOps
        /\ spawn_points' = r.points
        /\ last' = Call("add_spawn_point", None, 0, x, y, None, << >>, r.ret)
        /\ nops' = nops + 1
        /\ UNCHANGED <<width, height, layers, exit_points, heap, created>>
        /\ UNCHANGED tilevars

\* map.add_exit_point(x, y)
AddExitPoint(x, y) ==
    LET r == MapData_add_exit_point(width, height, exit_points, x, y)
    IN  /\ nops < MaxOps
        /\ exit_points' = r.points
        /\ last' = Call("add_exit_point", None, 0, x, y, None, << >>, r.ret)
        /\ nops' = nops + 1
        /\ UNCHANGED <<width, height, layers, spawn_points, heap, created>>
        /\ UNCHANGED tilevars

\* Calls on the tile grids of one map: set_tile, clear_tile, resize.
GridNext ==
    \/ \E x \in Coords, y \in Coords, n \in TileLayerNames, t \in TileArg :
            SetTile(x, y, n, t)
    \/ \E i \in 1 .. Len(layers), x \in Coords, y \in Coords :
            ClearTile(i, x, y)
    \/ \E w \in Dims, h \in Dims : Resize(w, h)

GridSpec == Init /\ [][GridNext]_vars

\* Calls on the layer list of one map: add_layer, remove_layer, resize.
LayerNext ==
    \/ \E lt \in NewLayerTypes, n \in NewLayerNames, z \in ZArg :
            AddLayer(lt, n, z)
    \/ \E n \in LayerNames : RemoveLayer(n)
    \/ \E w \in Dims, h \in Dims : Resize(w, h)

LayerSpec == Init /\ [][LayerNext]_vars

\* Calls on the point lists of one map: add_spawn_point, add_exit_point, resize.
PointNext ==
    \/ \E x \in Coords, y \in Coords : AddSpawnPoint(x, y)
    \/ \E x \in Coords, y \in Coords : AddExitPoint(x, y)
    \/ \E w \in Dims, h \in Dims : Resize(w, h)

PointSpec == Init /\ [][PointNext]_vars

\* Calls that allocate, reallocate or write grids on one map: add_layer,
\* remove_layer, set_tile, clear_tile, resize.
ShapeNext ==
    \/ \E lt \in NewLayerTypes, n \in NewLayerNames, z \in ZArg :
            AddLayer(lt, n, z)
    \/ \E n \in LayerNames : RemoveLayer(n)
    \/ \E x \in Coords, y \in Coords, n \in TileLayerNames, t \in ShapeTiles :
            SetTile(x, y, n, t)
    \/ \E i \in 1 .. Len(layers), x \in Coords, y \in Coords :
            ClearTile(i, x, y)
    \/ \E w \in Dims, h \in Dims : Resize(w, h)

ShapeSpec == Init /\ [][ShapeNext]_vars

\* Every call on one map.
Next ==
    \/ \E x \in Coords, y \in Coords, n \in TileLayerNames, t \in TileArg :
            SetTile(x, y, n, t)
    \/ \E i \in 1 .. Len(layers), x \in Coords, y \in Coords :
            ClearTile(i, x, y)
    \/ \E lt \in NewLayerTypes, n \in NewLayerNames, z \in ZArg :
            AddLayer(lt, n, z)
    \/ \E n \in LayerNames : RemoveLayer(n)
    \/ \E w \in Dims, h \in Dims : Resize(w, h)
    \/ \E x \in Coords, y \in Coords : AddSpawnPoint(x, y)
    \/ \E x \in Coords, y \in Coords : AddExitPoint(x, y)

Spec == Init /\ [][Next]_vars

\* map.set_tile(x, y, "Terrain", tile) by a caller that fills the grid
\* before it queries an area; the call is not kept in last.
FillTile(x, y, t) ==
    LET r == MapData_set_tile(layers, heap, x, y, "Terrain", t)
    IN  /\ nops < MaxOps
        /\ layers' = r.layers
        /\ heap' = r.heap
        /\ nops' = nops + 1
        /\ UNCHANGED <<width, height, spawn_points, exit_points, created>>
        /\ UNCHANGED <<last, tile, ctor, copied>>

\* map.get_layer("Terrain").get_tiles_in_area(x1, y1, x2, y2): last.x, last.y
\* is the first corner, last.z the second, last.ret the returned list. The
\* query changes nothing, so a run ends with it.
GetTilesInArea(x1, y1, x2, y2) ==
    LET i == MapData_get_layer(layers, "Terrain")
    IN  /\ nops < MaxOps
        /\ last' = Call("get_tiles_in_area", "Terrain", i, x1, y1, None,
                        <<x2, y2>>,
                        MapLayer_get_tiles_in_area(layers[i], x1, y1, x2, y2))
        /\ nops' = MaxOps
        /\ UNCHANGED mapvars
        /\ UNCHANGED tilevars

\* Area queries on a grid filled by set_tile calls.
AreaNext ==
    \/ \E x \in Coords, y \in Coords, t \in TileArg : FillTile(x, y, t)
    \/ \E x1 \in Coords, y1 \in Coords, x2 \in Coords, y2 \in Coords :
            GetTilesInArea(x1, y1, x2, y2)

AreaSpec == Init /\ [][AreaNext]_vars

\* ------------------------------------------------------- one Tile on its own
\* Tile(0, 0, tile_type, is_passable=.., is_transparent=.., max_health=..,
\* current_health=.., properties=.., asset_instances=..); beside it an idle
\* MapData(1, 1, map_id).
TileInit ==
    /\ width = 1
    /\ height = 1
    /\ layers = MapData_post_init(width, height)
    /\ spawn_points = << >>
    /\ exit_points = << >>
    /\ heap = [t \in TileIds |-> [x |-> 0, y |-> 0]]
    /\ created = 3
    /\ nops = 0
    /\ last = NoCall
    /\ \E tt \in TileType, p \in BOOLEAN, tr \in BOOLEAN,
          mh \in HealthArg, ch \in HealthArg, bag \in BagArg :
            ctor = TileArgs(tt, p, tr, mh, ch, bag)
    /\ tile = Tile_post_init(ctor)
    /\ copied = << >>

\* tile.damage(amount); last.x holds the amount.
Damage(amount) ==
    LET r == Tile_damage(tile, amount)
    IN  /\ nops < MaxOps
        /\ tile' = r.tile
        /\ last' = Call("damage", None, 0, amount, 0, None, << >>, r.ret)
        /\ nops' = nops + 1
        /\ UNCHANGED <<ctor, copied>>
        /\ UNCHANGED mapvars

\* tile.heal(amount); last.x holds the amount.
Heal(amount) ==
    /\ nops < MaxOps
    /\ tile' = Tile_heal(tile, amount)
    /\ last' = Call("heal", None, 0, amount, 0, None, << >>, TRUE)
    /\ nops' = nops + 1
    /\ UNCHANGED <<ctor, copied>>
    /\ UNCHANGED mapvars

\* copied = tile.copy()
Copy ==
    /\ nops < MaxOps
    /\ copied' = << Tile_copy(tile) >>
    /\ last' = Call("copy", None, 0, 0, 0, None, << >>, TRUE)
    /\ nops' = nops + 1
    /\ UNCHANGED <<tile, ctor>>
    /\ UNCHANGED mapvars

TileNext ==
    \/ \E a \in Amounts : Damage(a)
    \/ \E a \in Amounts : Heal(a)
    \/ Copy

TileSpec == TileInit /\ [][TileNext]_vars

\* ================================================================== claims
\* The cell (x, y) of a layer's grid, read without any bounds check.
Cell(layer, x, y) == layer.tiles[y + 1][x + 1]

\* (x, y) lies inside the declared bounds of the layer.
InLayer(layer, x, y) ==
    x >= 0 /\ y >= 0 /\ x < layer.width /\ y < layer.height

\* The layer a MapData call names exists.
HasLayer(ls, name) == \E i \in 1 .. Len(ls) : ls[i].name = name

\* The first layer of that name.
FirstNamed(ls, name) ==
    ls[CHOOSE i \in 1 .. Len(ls) :
          ls[i].name = name /\ \A j \in 1 .. (i - 1) : ls[j].name # name]

\* C1: after set_tile(x, y, tile) with a tile and (x, y) inside the layer,
\* the call has returned true, get_tile(x, y) returns that tile, and the
\* tile's stored coordinates are (x, y), whatever they were before.
C1_SetThenGet ==
    (/\ last.op = "set_tile"
     /\ last.tile # None
     /\ HasLayer(layers, last.name)
     /\ InLayer(FirstNamed(layers, last.name), last.x, last.y))
    => /\ last.ret = TRUE
       /\ MapData_get_tile(layers, last.x, last.y, last.name) = last.tile
       /\ MapLayer_get_tile(FirstNamed(layers, last.name), last.x, last.y)
            = last.tile
       /\ heap[last.tile].x = last.x
       /\ heap[last.tile].y = last.y

\* C1 witness: the second call put tile tB, which carried the coordinates
\* (0, 0), into cell (1, 1) of the Terrain layer.
C1_Witness ==
    /\ nops = 2
    /\ last.op = "set_tile" /\ last.tile = "tB" /\ last.name = "Terrain"
    /\ last.x = 1 /\ last.y = 1 /\ last.ret
    /\ Cell(FirstNamed(layers, "Terrain"), 1, 1) = "tB"
    /\ heap["tB"] = [x |-> 1, y |-> 1]

\* C2 (reads): get_tile at a position outside a layer's bounds, or on a
\* layer that does not exist, returns absent.
C2_GetAbsent ==
    /\ \A i \in 1 .. Len(layers), x \in Coords, y \in Coords :
          ~InLayer(layers[i], x, y)
            => MapLayer_get_tile(layers[i], x, y) = None
    /\ \A n \in LayerNames, x \in Coords, y \in Coords :
          (~HasLayer(layers, n) \/ ~InLayer(FirstNamed(layers, n), x, y))
            => MapData_get_tile(layers, x, y, n) = None

\* C2 (writes): a set_tile on a layer that does not exist or at a position
\* outside the layer's bounds, and a clear_tile outside the bounds, return
\* false and change neither any grid nor any tile's stored coordinates.
C2_WriteRejected ==
    /\ (/\ last'.op = "set_tile"
        /\ (~HasLayer(layers, last'.name)
            \/ ~InLayer(FirstNamed(layers, last'.name), last'.x, last'.y)))
       => (last'.ret = FALSE /\ layers' = layers /\ heap' = heap)
    /\ (/\ last'.op = "clear_tile"
        /\ ~InLayer(layers[last'.idx], last'.x, last'.y))
       => (last'.ret = FALSE /\ layers' = layers /\ heap' = heap)

\* C2: out-of-bounds and absent-layer accesses yield absent / false and
\* change nothing.
C2_OutOfBounds == [](C2_GetAbsent) /\ [][C2_WriteRejected]_vars

\* C2 witness: a grid holds a tile, and the second call was a set_tile of
\* the other tile one column to the right of the Terrain layer.
C2_Witness ==
    /\ nops = 2
    /\ last.op = "set_tile" /\ last.tile = "tB" /\ last.name = "Terrain"
    /\ last.x = width /\ last.y = 0 /\ last.ret = FALSE
    /\ Cell(FirstNamed(layers, "Terrain"), 0, 0) = "tA"

\* C3: resize keeps, in every layer, the cells of the overlapping top-left
\* rectangle as they were, makes every other cell of the new grid empty, and
\* the new grid has exactly the new dimensions (so nothing outside them is
\* kept); the tiles' stored coordinates are untouched.
C3_ResizeStep ==
    last'.op = "resize" =>
        /\ width' = last'.x /\ height' = last'.y
        /\ Len(layers') = Len(layers)
        /\ heap' = heap
        /\ \A i \in 1 .. Len(layers) :
              /\ Len(layers'[i].tiles) = height'
              /\ \A y \in 0 .. (height' - 1) :
                    /\ Len(layers'[i].tiles[y + 1]) = width'
                    /\ \A x \in 0 .. (width' - 1) :
                          Cell(layers'[i], x, y) =
                            IF x < Min(width, width') /\ y < Min(height, height')
                            THEN Cell(layers[i], x, y)
                            ELSE None

C3_ResizePreserves == [][C3_ResizeStep]_vars

\* C3 witness: a mixed resize (narrower and taller) that kept a tile: the
\* map is now 1 wide and MaxDim high and Terrain still holds tA at (0, 0),
\* which was set when the map was MaxDim wide and 1 high.
C3_Witness ==
    /\ nops = 2
    /\ last.op = "resize"
    /\ width = 1 /\ height = MaxDim
    /\ Len(FirstNamed(layers, "Terrain").tiles) = MaxDim
    /\ Cell(FirstNamed(layers, "Terrain"), 0, 0) = "tA"
    /\ Cell(FirstNamed(layers, "Terrain"), 0, MaxDim - 1) = None

\* C4: the layer list is in ascending z_index order, and layers with the
\* same z_index are in the order of their creation (ids count creations).
C4_LayersSorted ==
    \A i \in 1 .. Len(layers), j \in 1 .. Len(layers) :
        i < j =>
            /\ layers[i].z_index <= layers[j].z_index
            /\ layers[i].z_index = layers[j].z_index
                 => layers[i].id < layers[j].id

\* C4 witness: two added layers share the z_index of a default layer, and
\* the last call was an add_layer with an explicit z_index.
C4_Witness ==
    /\ nops = 2
    /\ last.op = "add_layer" /\ last.z # << >>
    /\ \E i \in 1 .. Len(layers), j \in 1 .. Len(layers),
          k \in 1 .. Len(layers) :
          /\ i < j /\ j < k
          /\ layers[i].z_index = layers[j].z_index
          /\ layers[j].z_index = layers[k].z_index
          /\ layers[i].id <= 3 /\ layers[j].id > 3 /\ layers[k].id > 3

\* The layer that the last add_layer call created.
Added(ls) == ls[CHOOSE i \in 1 .. Len(ls) : ls[i].id = last.idx]
AddedAt(ls) == CHOOSE i \in 1 .. Len(ls) : ls[i].id = last.idx

\* C9 as claimed: a layer added without a z_index gets the number of layers
\* present before the call as its z_index and is the last of the list.
C9_DefaultOnTop ==
    (last.op = "add_layer" /\ last.z = << >>)
    => /\ Added(layers).z_index = Len(layers) - 1
       /\ AddedAt(layers) = Len(layers)

\* C9 amended: a layer added without a z_index gets the number of layers
\* present before the call as its z_index and stands after every layer whose
\* z_index is not greater and before every layer whose z_index is greater;
\* so it is last exactly when no layer has a z_index above that number.
C9_DefaultZByCount ==
    (last.op = "add_layer" /\ last.z = << >>)
    => /\ Added(layers).z_index = Len(layers) - 1
       /\ \A i \in 1 .. Len(layers) :
             /\ (i < AddedAt(layers))
                    => layers[i].z_index <= Len(layers) - 1
             /\ (i > AddedAt(layers))
                    => layers[i].z_index > Len(layers) - 1
       /\ (AddedAt(layers) = Len(layers))
            <=> ~\E i \in 1 .. Len(layers) :
                    layers[i].z_index > Len(layers) - 1

\* C9 witness: a layer added without a z_index, after a layer added with a
\* larger explicit z_index, is not the last of the list.
C9_Witness ==
    /\ nops = 2
    /\ last.op = "add_layer" /\ last.z = << >>
    /\ Added(layers).z_index = Len(layers) - 1
    /\ AddedAt(layers) < Len(layers)

\* (x, y) lies inside the map's bounds.
InMap(w, h, x, y) == x >= 0 /\ y >= 0 /\ x < w /\ y < h

\* C10: add_spawn_point / add_exit_point append (x, y) to their own list and
\* return true exactly when (x, y) is inside the map, otherwise return false
\* and change neither list; neither ever changes the other list.
C10_PointStep ==
    /\ last'.op = "add_spawn_point" =>
          /\ exit_points' = exit_points
          /\ IF InMap(width, height, last'.x, last'.y)
             THEN /\ last'.ret = TRUE
                  /\ spawn_points' = Append(spawn_points, <<last'.x, last'.y>>)
             ELSE /\ last'.ret = FALSE
                  /\ spawn_points' = spawn_points
    /\ last'.op = "add_exit_point" =>
          /\ spawn_points' = spawn_points
          /\ IF InMap(width, height, last'.x, last'.y)
             THEN /\ last'.ret = TRUE
                  /\ exit_points' = Append(exit_points, <<last'.x, last'.y>>)
             ELSE /\ last'.ret = FALSE
                  /\ exit_points' = exit_points

C10_PointsValidated == [][C10_PointStep]_vars

\* C10 witness: the same in-bounds point was added twice as a spawn point.
C10_Witness ==
    /\ last.op = "add_spawn_point" /\ last.ret
    /\ Len(spawn_points) = 2
    /\ spawn_points[1] = spawn_points[2]
    /\ exit_points = << >>

\* The tile tracks health.
Tracked(t) == t.current_health # << >>

\* C5 as claimed: damage returns true only on the call during which
\* current_health goes from above 0 to 0 or below; on a tile that is already
\* destroyed, and on a tile without health tracking, it returns false.
C5_DamageStep ==
    last'.op = "damage" =>
        /\ last'.ret = TRUE =>
              /\ Tracked(tile)
              /\ tile.current_health[1] > 0
              /\ tile'.current_health[1] <= 0
        /\ ~Tracked(tile) => (last'.ret = FALSE /\ tile' = tile)

C5_TrueOnlyOnCrossing == [][C5_DamageStep]_vars

\* C6 as claimed: a tile constructed with max_health = M and no explicit
\* current_health keeps 0 <= current_health <= M through every damage and
\* heal call, whatever the amounts.
C6_HealthInRange ==
    (ctor.max_health # << >> /\ ctor.current_health = << >>)
    => /\ Tracked(tile)
       /\ tile.max_health = ctor.max_health
       /\ 0 <= tile.current_health[1]
       /\ tile.current_health[1] <= tile.max_health[1]

\* C7: a damage call that leaves a WALL tile's current_health at 0 or below
\* leaves is_passable and is_transparent true; any other damage call leaves
\* both flags as they were; damage and heal never change tile_type.
C7_DestroyStep ==
    /\ last'.op = "damage" =>
          IF tile.tile_type = "WALL" /\ Tracked(tile')
             /\ tile'.current_health[1] <= 0
          THEN tile'.is_passable = TRUE /\ tile'.is_transparent = TRUE
          ELSE /\ tile'.is_passable = tile.is_passable
               /\ tile'.is_transparent = tile.is_transparent
    /\ last'.op \in {"damage", "heal"} => tile'.tile_type = tile.tile_type

C7_OnlyWallFlips == [][C7_DestroyStep]_vars

\* C7 witness: a WALL tile, constructed impassable and opaque with some
\* health, was destroyed by the last damage call and is now passable and
\* transparent.
C7_Witness ==
    /\ last.op = "damage" /\ last.ret
    /\ tile.tile_type = "WALL"
    /\ ctor.max_health # << >> /\ ctor.max_health[1] > 0
    /\ ctor.current_health = << >>
    /\ tile.current_health = <<0>>
    /\ tile.is_passable /\ tile.is_transparent

\* C8 as claimed: after copied = tile.copy(), every scalar field of the copy
\* equals the original's, the property map has the same entries and the
\* asset-instance list holds the same instances.
C8_CopyEqual ==
    last.op = "copy" =>
        /\ copied # << >>
        /\ copied[1].x = tile.x
        /\ copied[1].y = tile.y
        /\ copied[1].tile_type = tile.tile_type
        /\ copied[1].biome_type = tile.biome_type
        /\ copied[1].is_passable = tile.is_passable
        /\ copied[1].is_transparent = tile.is_transparent
        /\ copied[1].movement_cost = tile.movement_cost
        /\ copied[1].is_interactive = tile.is_interactive
        /\ copied[1].interaction_range = tile.interaction_range
        /\ copied[1].is_discovered = tile.is_discovered
        /\ copied[1].is_visible = tile.is_visible
        /\ copied[1].max_health = tile.max_health
        /\ copied[1].current_health = tile.current_health
        /\ copied[1].properties = tile.properties
        /\ copied[1].asset_instances = tile.asset_instances

\* The list returned by the last area query, its layer and its corners.
AreaResult == last.ret
AreaLayer == layers[last.idx]
AreaX1 == last.x
AreaY1 == last.y
AreaX2 == last.z[1]
AreaY2 == last.z[2]

\* (x, y) lies in the inclusive rectangle spanned by the two corners.
InRect(x, y, x1, y1, x2, y2) ==
    /\ (x1 <= x /\ x <= x2) \/ (x2 <= x /\ x <= x1)
    /\ (y1 <= y /\ y <= y2) \/ (y2 <= y /\ y <= y1)

\* C11: get_tiles_in_area returns exactly one triple for each cell of the
\* corners' inclusive rectangle that lies inside the layer, holding the
\* cell's content (a tile or absent), nothing for any other position, and
\* the same list for every order in which the corners' coordinates are given.
C11_AreaExact ==
    last.op = "get_tiles_in_area" =>
        /\ \A k \in 1 .. Len(AreaResult) :
              /\ InLayer(AreaLayer, AreaResult[k][1], AreaResult[k][2])
              /\ InRect(AreaResult[k][1], AreaResult[k][2],
                        AreaX1, AreaY1, AreaX2, AreaY2)
              /\ AreaResult[k][3]
                    = Cell(AreaLayer, AreaResult[k][1], AreaResult[k][2])
        /\ \A x \in Coords, y \in Coords :
              Cardinality({k \in 1 .. Len(AreaResult) :
                              AreaResult[k][1] = x /\ AreaResult[k][2] = y})
                = IF InLayer(AreaLayer, x, y)
                     /\ InRect(x, y, AreaX1, AreaY1, AreaX2, AreaY2)
                  THEN 1 ELSE 0
        /\ AreaResult = MapLayer_get_tiles_in_area(
                            AreaLayer, AreaX2, AreaY2, AreaX1, AreaY1)
        /\ AreaResult = MapLayer_get_tiles_in_area(
                            AreaLayer, AreaX2, AreaY1, AreaX1, AreaY2)
        /\ AreaResult = MapLayer_get_tiles_in_area(
                            AreaLayer, AreaX1, AreaY2, AreaX2, AreaY1)

\* C11 witness: a query with its corners in descending order and reaching
\* outside the layer on both sides returned a clipped list that holds a tile
\* and, on a wider layer, an empty cell as well.
C11_Witness ==
    /\ last.op = "get_tiles_in_area"
    /\ AreaX1 = MaxDim /\ AreaX2 = -1 /\ AreaY1 = MaxDim /\ AreaY2 = -1
    /\ AreaLayer.width = MaxDim
    /\ Len(AreaResult) = AreaLayer.width * AreaLayer.height
    /\ \E k \in 1 .. Len(AreaResult) : AreaResult[k][3] # None
    /\ \E k \in 1 .. Len(AreaResult) : AreaResult[k][3] = None
    /\ AreaResult[1][1] = 0 /\ AreaResult[1][2] = 0

\* The layer is an all-empty grid of h rows of w cells, declared as w by h.
EmptyGrid(layer, w, h) ==
    /\ layer.width = w
    /\ layer.height = h
    /\ Len(layer.tiles) = h
    /\ \A r \in 1 .. h :
          /\ Len(layer.tiles[r]) = w
          /\ \A c \in 1 .. w : layer.tiles[r][c] = None

\* The layer's type, name and z_index.
LayerIs(layer, layer_type, name, z_index) ==
    /\ layer.layer_type = layer_type
    /\ layer.name = name
    /\ layer.z_index = z_index

\* C12: a MapData constructed with no explicit layers has exactly three
\* layers, in list order BACKGROUND "Background" z 0, TERRAIN "Terrain" z 1,
\* OBJECTS "Objects" z 2, each an all-empty grid of the map's width and height.
C12_DefaultLayers ==
    nops = 0 =>
        /\ Len(layers) = 3
        /\ LayerIs(layers[1], "BACKGROUND", "Background", 0)
        /\ LayerIs(layers[2], "TERRAIN", "Terrain", 1)
        /\ LayerIs(layers[3], "OBJECTS", "Objects", 2)
        /\ \A i \in 1 .. 3 : EmptyGrid(layers[i], width, height)

\* C12 witness: a freshly constructed map that is wider than it is high.
C12_Witness ==
    /\ nops = 0
    /\ last.op = "init"
    /\ width = MaxDim /\ height = 1
    /\ Len(layers) = 3
    /\ Len(layers[3].tiles[1]) = MaxDim

\* The layer's grid has h rows of w cells and the layer is declared w by h.
GridShape(layer, w, h) ==
    /\ layer.width = w
    /\ layer.height = h
    /\ Len(layer.tiles) = h
    /\ \A r \in 1 .. h : Len(layer.tiles[r]) = w

\* C13: after any sequence of add_layer, remove_layer, set_tile, clear_tile
\* and resize on a map constructed with its default layers, every layer's
\* declared width and height are the map's and every layer's grid has
\* exactly height rows of exactly width cells.
C13_LayersMatchMap ==
    \A i \in 1 .. Len(layers) : GridShape(layers[i], width, height)

\* C13 witness: a map resized to other dimensions after a layer was added,
\* so that a layer created at the old size has the new size.
C13_Witness ==
    /\ last.op = "resize"
    /\ Len(layers) = 4
    /\ width # height
    /\ \E i \in 1 .. Len(layers) :
          /\ layers[i].id = 4
          /\ GridShape(layers[i], width, height)
          /\ width = MaxDim /\ height = 1

\* C14: after any sequence of add_spawn_point, add_exit_point and resize,
\* every recorded spawn point and exit point lies inside the map's current
\* bounds: 0 <= x < width and 0 <= y < height.
C14_PointsInBounds ==
    /\ \A k \in 1 .. Len(spawn_points) :
          InMap(width, height, spawn_points[k][1], spawn_points[k][2])
    /\ \A k \in 1 .. Len(exit_points) :
          InMap(width, height, exit_points[k][1], exit_points[k][2])

\* C15: after any sequence of set_tile, clear_tile and resize, with the same
\* Tile object free to be passed to several set_tile calls, every tile held
\* in cell (x, y) of any layer has x and y as its stored coordinates.
C15_CoordinatesInSync ==
    \A i \in 1 .. Len(layers) :
        \A x \in 0 .. (layers[i].width - 1), y \in 0 .. (layers[i].height - 1) :
            Cell(layers[i], x, y) # None =>
                /\ heap[Cell(layers[i], x, y)].x = x
                /\ heap[Cell(layers[i], x, y)].y = y

====
